---- MODULE Spec2Model ----
(***************************************************************************)
(* Model of the locodrive crate: the message codec of src/src/protocol.rs  *)
(* (field codecs, Message::parse, Message::to_message) and the duplex      *)
(* controller of src/src/loco_controller.rs (reader task, send_message,    *)
(* stop_reader).                                                           *)
(*                                                                         *)
(* A decoded value is a flat tuple of naturals (booleans are 0/1), a       *)
(* Message is a record [tag, f] with f the concatenation of its fields.    *)
(***************************************************************************)
EXTENDS Integers, Sequences, FiniteSets, TLC

(***************************************************************************)
(* u8 / u16 arithmetic                                                     *)
(***************************************************************************)
RECURSIVE BitAnd(_, _)
BitAnd(a, b) ==
    IF a = 0 \/ b = 0 THEN 0
    ELSE (a % 2) * (b % 2) + 2 * BitAnd(a \div 2, b \div 2)

RECURSIVE BitOr(_, _)
BitOr(a, b) ==
    IF a = 0 THEN b
    ELSE IF b = 0 THEN a
    ELSE (IF a % 2 = 1 \/ b % 2 = 1 THEN 1 ELSE 0) + 2 * BitOr(a \div 2, b \div 2)

RECURSIVE BitXor(_, _)
BitXor(a, b) ==
    IF a = 0 THEN b
    ELSE IF b = 0 THEN a
    ELSE ((a + b) % 2) + 2 * BitXor(a \div 2, b \div 2)

RECURSIVE Pow2(_)
Pow2(n) == IF n = 0 THEN 1 ELSE 2 * Pow2(n - 1)

Shr(a, n) == a \div Pow2(n)

Shl(a, n) == a * Pow2(n)

B2N(b) == IF b THEN 1 ELSE 0

Bit(x, mask) == BitAnd(x, mask) # 0

\* fold(0, |acc, b| acc ^ b) over a byte slice
RECURSIVE FoldXor(_)
FoldXor(s) == IF s = <<>> THEN 0 ELSE BitXor(Head(s), FoldXor(Tail(s)))

Msg(tag, f) == [tag |-> tag, f |-> f]

(***************************************************************************)
(* Field codecs (protocol.rs, mod args)                                    *)
(***************************************************************************)
AddressArg_parse(adr2, adr) == << BitOr(adr, Shl(adr2, 7)) >>

AddressArg_adr1(a) == BitAnd(a[1], 127)

AddressArg_adr2(a) == BitAnd(Shr(a[1], 7), 127)

\* <<address, direction (1 = Curved, 0 = Straight), state>>
SwitchArg_parse(sw1, sw2) ==
    << BitOr(sw1, Shl(BitAnd(sw2, 15), 7)),
       IF BitAnd(sw2, 32) = 0 THEN 1 ELSE 0,
       B2N(Bit(sw2, 16)) >>

SwitchArg_sw1(a) == BitAnd(a[1], 127)

SwitchArg_sw2(a) ==
    BitOr(BitOr(BitAnd(Shr(a[1], 7), 15), IF a[2] = 1 THEN 32 ELSE 0),
          IF a[3] = 1 THEN 16 ELSE 0)

SlotArg_parse(slot) == << BitAnd(slot, 127) >>

SlotArg_slot(a) == a[1]

\* <<kind (0 = Stop, 1 = EmergencyStop, 2 = Drive), n>>
SpeedArg_parse(spd) ==
    IF spd = 0 THEN <<0, 0>>
    ELSE IF spd = 1 THEN <<1, 0>>
    ELSE <<2, spd - 1>>

SpeedArg_spd(a) == IF a[1] = 0 THEN 0 ELSE IF a[1] = 1 THEN 1 ELSE a[2]

DirfArg_parse(dirf) == << BitAnd(dirf, 63) >>

DirfArg_dirf(a) == a[1]

\* <<power, idle, mlok1, prog_busy>>
TrkArg_parse(trk) ==
    << B2N(BitAnd(trk, 1) = 1), B2N(BitAnd(trk, 2) = 0),
       B2N(BitAnd(trk, 4) = 4), B2N(BitAnd(trk, 8) = 8) >>

TrkArg_trk_arg(a) == a[1] + 2 * a[2] + 4 * a[3] + 8 * a[4]

SndArg_parse(snd) == << BitAnd(snd, 15) >>

SndArg_snd(a) == a[1]

\* the decoder-type selector has no arm for 5 and 6: Stat1Arg::parse panics
Stat1Arg_panics(stat1) == BitAnd(stat1, 7) \in {5, 6}

\* <<spurge, consist bits (0x48 mask), state bits (0x30 mask), decoder bits>>
Stat1Arg_parse(stat1) ==
    << B2N(Bit(stat1, 128)), BitAnd(stat1, 72), BitAnd(stat1, 48), BitAnd(stat1, 7) >>

Stat1Arg_stat1(a) == BitOr(BitOr(BitOr(128 * a[1], a[2]), a[3]), a[4])

\* <<has_adv, no_id_usage, id_encoded_alias>>
Stat2Arg_parse(stat2) ==
    << B2N(Bit(stat2, 1)), B2N(Bit(stat2, 4)), B2N(Bit(stat2, 8)) >>

Stat2Arg_stat2(a) == a[1] + 4 * a[2] + 8 * a[3]

\* lopc & !0x40
LopcArg_parse(lopc) == << BitAnd(lopc, 191) >>

LopcArg_lopc(a) == a[1]

Ack1Arg_parse(ack1) == << ack1 >>

Ack1Arg_ack1(a) == a[1]

\* <<address, source_type (1 = Switch, 0 = Aux), state>>
InArg_parse(in1, in2) ==
    << BitOr(in1, Shl(BitAnd(in2, 15), 7)),
       IF BitAnd(in2, 32) = 0 THEN 0 ELSE 1,
       B2N(Bit(in2, 16)) >>

InArg_in1(a) == BitAnd(a[1] % 256, 127)

InArg_in2(a) ==
    BitOr(BitOr(BitAnd(Shr(a[1], 7) % 256, 15), IF a[2] = 1 THEN 32 ELSE 0),
          IF a[3] = 1 THEN 16 ELSE 0)

\* <<address, format, c, t>>
SnArg_parse(sn1, sn2) ==
    << BitOr(sn1, Shl(BitAnd(sn2, 15), 7)),
       B2N(BitAnd(sn2, 32) = 32), B2N(BitAnd(sn2, 64) = 64), B2N(BitAnd(sn2, 128) = 128) >>

SnArg_sn1(a) == BitAnd(a[1] % 256, 127)

\* the format bit is not written back
SnArg_sn2(a) ==
    BitOr(BitOr(BitAnd(Shr(a[1], 7) % 256, 15), IF a[3] = 1 THEN 64 ELSE 0),
          IF a[4] = 1 THEN 128 ELSE 0)

IdArg_parse(id1, id2) == << BitAnd(id1, 247), BitAnd(id2, 247) >>

IdArg_id1(a) == a[1]

IdArg_id2(a) == a[2]

MTypeArg_parse(m_type) == << m_type >>

MTypeArg_m_type(a) == a[1]

ZasArg_parse(zas) == << zas >>

ZasArg_zas(a) == a[1]

SenseAddrArg_parse(addr1, addr2) == << BitOr(addr1, Shl(addr2, 7)) >>

SenseAddrArg_addr1(a) == BitAnd(a[1] % 256, 127)

SenseAddrArg_addr2(a) == Shr(a[1], 7) % 256

\* <<group, function>>
FunctionArg_parse(group, function) == << group, function >>

FunctionArg_group(a) == a[1]

FunctionArg_function(a) == a[2]

\* <<write, byte_mode, ops_mode, ty1, ty2>>
Pcmd_parse(pcmd) ==
    << B2N(BitAnd(pcmd, 32) = 32), B2N(BitAnd(pcmd, 64) = 64), B2N(BitAnd(pcmd, 2) = 2),
       B2N(BitAnd(pcmd, 128) = 128), B2N(BitAnd(pcmd, 1) = 1) >>

Pcmd_pcmd(a) == 32 * a[1] + 64 * a[2] + 2 * a[3] + 128 * a[4] + a[5]

Hopsa_parse(o_mode) == << BitAnd(o_mode, 127) >>

Hopsa_o_mode(a) == a[1]

Lopsa_parse(o_mode) == << BitAnd(o_mode, 127) >>

Lopsa_o_mode(a) == a[1]

CvArg_parse(cvh, cvl) ==
    LET data_arg == Shr(BitAnd(cvh, 2), 1)
        high_cv_arg == BitOr(BitOr(BitAnd(cvh, 1), Shr(BitAnd(cvh, 48), 3)),
                             Shl(data_arg, 3))
    IN  << BitOr(cvl, Shl(high_cv_arg, 7)) >>

CvArg_data7(a) == Bit(a[1], 2048)

\* `cvh & 0x06 << 3` parses as cvh & (0x06 << 3)
CvArg_cvh(a) ==
    LET cvh == Shr(a[1], 7) % 256
        high_cv == BitAnd(cvh, 48)
    IN  BitOr(BitOr(BitAnd(cvh, 1), high_cv), IF CvArg_data7(a) THEN 2 ELSE 0)

CvArg_cvl(a) == BitAnd(a[1] % 256, 127)

DataArg_parse(data) == << data >>

DataArg_data(a) == a[1]

\* `mins % 60 - 0xFF` on u8 always underflows: a panic when the build checks
\* arithmetic overflow, a wrap-around otherwise
FastClock_panics(chk) == chk

\* <<clk_rate, frac_minsl, frac_minsh, duration in seconds, clk_cntrl>>
FastClock_parse(clk_rate, frac_minsl, frac_minsh, mins, hours, days, clk_cntrl) ==
    LET min == ((mins % 60) + 256 - 255) % 256
        hour == ((hours % 60) + 256 - 255) % 256
        secs == min * 60 + hour * 60 * 60 + days * 24 * 60 * 60
    IN  << BitAnd(clk_rate, 127), frac_minsl, frac_minsh, secs, clk_cntrl >>

FastClock_clk_rate(a) == a[1]

FastClock_frac_minsl(a) == a[2]

FastClock_frac_minsh(a) == a[3]

FastClock_mins(a) == 255 - ((a[4] % 60) % 256)

FastClock_hours(a) == 255 - (((a[4] \div 60) % 60) % 256)

FastClock_days(a) == 255 - (((a[4] \div 60) \div 60 % 24) % 256)

FastClock_clk_cntrl(a) == a[5]

\* assert_eq!(check_byte, 0x7F)
ImArg_panics(check_byte) == check_byte # 127

\* <<reps, dhi, address, function_type, function_bits, im5>>
ImArg_parse(check_byte, reps, dhi, im1, im2, im3, im4, im5) ==
    LET function_type == IF im3 = 94 THEN 94 ELSE IF im3 = 95 THEN 95 ELSE 32
        typed == function_type = 94 \/ function_type = 95
    IN  IF reps = 52
        THEN << reps, dhi, BitOr(Shl(im2, 8), im1), function_type,
                BitAnd(IF typed THEN im4 ELSE im3, 127), im5 >>
        ELSE << reps, dhi, im1, function_type,
                BitAnd(IF typed THEN im3 ELSE BitAnd(im2, 223), 127), im5 >>

ImArg_reps(a) == a[1]

ImArg_dhi(a) == a[2]

ImArg_im1(a) == a[3] % 256

ImArg_im2(a) ==
    IF a[1] = 52 THEN Shr(a[3], 8) % 256
    ELSE IF a[4] = 32 THEN BitOr(a[5], 32) ELSE a[4]

ImArg_im3(a) ==
    IF a[1] = 52
    THEN (IF a[4] = 32 THEN BitOr(a[5], 32) ELSE a[4])
    ELSE (IF a[4] = 32 THEN 0 ELSE a[5])

ImArg_im4(a) == IF a[1] = 52 /\ a[4] # 32 THEN a[5] ELSE 0

ImArg_im5(a) == a[6]

\* FastClock (5) \o TrkArg (4) \o IdArg (2)
WrSlDataTime_parse(clk_rate, frac_minsh, frac_minsl, mins, trk, hours, days, clk_cntr, id1, id2) ==
    FastClock_parse(clk_rate, frac_minsl, frac_minsh, mins, hours, days, clk_cntr)
        \o TrkArg_parse(trk) \o IdArg_parse(id1, id2)

\* Pcmd (5) \o Hopsa (1) \o Lopsa (1) \o TrkArg (4) \o CvArg (1) \o DataArg (1)
WrSlDataPt_parse(pcmd, arg3, hopsa, lopsa, trk, cvh, cvl, data7, arg10, arg11) ==
    Pcmd_parse(pcmd) \o Hopsa_parse(hopsa) \o Lopsa_parse(lopsa) \o TrkArg_parse(trk)
        \o CvArg_parse(cvh, cvl) \o DataArg_parse(data7)

\* SlotArg (1) \o Stat1Arg (4) \o Stat2Arg (3) \o AddressArg (1) \o SpeedArg (2)
\*   \o DirfArg (1) \o TrkArg (4) \o SndArg (1) \o IdArg (2)
WrSlDataGeneral_parse(slot, stat1, adr, spd, dirf, trk, stat2, adr2, snd, id1, id2) ==
    SlotArg_parse(slot) \o Stat1Arg_parse(stat1) \o Stat2Arg_parse(stat2)
        \o AddressArg_parse(adr2, adr) \o SpeedArg_parse(spd) \o DirfArg_parse(dirf)
        \o TrkArg_parse(trk) \o SndArg_parse(snd) \o IdArg_parse(id1, id2)

\* all three payloads are decoded from the same bytes, whatever the slot type
WrSlDataStructure_panics(a, chk) == FastClock_panics(chk) \/ Stat1Arg_panics(a[2])

\* <<slot_type>> \o time_slot (11) \o pt_slot (13) \o general_slot (19); `a` = arg1..arg11
WrSlDataStructure_parse(a) ==
    << IF a[1] = 124 THEN 124 ELSE IF a[1] = 123 THEN 123 ELSE 0 >>
        \o WrSlDataTime_parse(a[2], a[3], a[4], a[5], a[6], a[7], a[8], a[9], a[10], a[11])
        \o WrSlDataPt_parse(a[2], a[3], a[4], a[5], a[6], a[7], a[8], a[9], a[10], a[11])
        \o WrSlDataGeneral_parse(a[1], a[2], a[3], a[4], a[5], a[6], a[7], a[8], a[9], a[10], a[11])

WrSlDataStructure_to_message(f) ==
    LET time == SubSeq(f, 2, 12)
        clock == SubSeq(time, 1, 5)
        pt == SubSeq(f, 13, 25)
        gen == SubSeq(f, 26, 44)
    IN  IF f[1] = 124
        THEN << 239, 14, 124, Pcmd_pcmd(SubSeq(pt, 1, 5)), 0, Hopsa_o_mode(SubSeq(pt, 6, 6)),
                Lopsa_o_mode(SubSeq(pt, 7, 7)), TrkArg_trk_arg(SubSeq(pt, 8, 11)),
                CvArg_cvh(SubSeq(pt, 12, 12)), CvArg_cvl(SubSeq(pt, 12, 12)),
                DataArg_data(SubSeq(pt, 13, 13)), 0, 0 >>
        ELSE IF f[1] = 123
        THEN << 239, 14, 123, FastClock_clk_rate(clock), FastClock_frac_minsl(clock),
                FastClock_frac_minsh(clock), FastClock_mins(clock),
                TrkArg_trk_arg(SubSeq(time, 6, 9)), FastClock_hours(clock),
                FastClock_days(clock), FastClock_clk_cntrl(clock),
                IdArg_id1(SubSeq(time, 10, 11)), IdArg_id2(SubSeq(time, 10, 11)) >>
        ELSE << 239, 14, SlotArg_slot(SubSeq(gen, 1, 1)), Stat1Arg_stat1(SubSeq(gen, 2, 5)),
                AddressArg_adr1(SubSeq(gen, 9, 9)), SpeedArg_spd(SubSeq(gen, 10, 11)),
                DirfArg_dirf(SubSeq(gen, 12, 12)), TrkArg_trk_arg(SubSeq(gen, 13, 16)),
                Stat2Arg_stat2(SubSeq(gen, 6, 8)), AddressArg_adr2(SubSeq(gen, 9, 9)),
                SndArg_snd(SubSeq(gen, 17, 17)), IdArg_id1(SubSeq(gen, 18, 19)),
                IdArg_id2(SubSeq(gen, 18, 19)) >>

(***************************************************************************)
(* Message catalog (protocol.rs, impl Message)                             *)
(***************************************************************************)
\* Result<Message, MessageParseError>, or the panic of the calling thread
ParseOk(tag, f) == [t |-> "Ok", tag |-> tag, f |-> f]

ParseErr(e, f) == [t |-> "Err", tag |-> e, f |-> f]

ParsePanic == [t |-> "Panic", tag |-> "panic", f |-> <<>>]

validate(msg) == FoldXor(msg) = 255

check_sum(msg) == FoldXor(msg)

parse2(opc) ==
    CASE opc = 133 -> ParseOk("Idle", <<>>)
      [] opc = 131 -> ParseOk("GpOn", <<>>)
      [] opc = 130 -> ParseOk("GpOff", <<>>)
      [] opc = 129 -> ParseOk("Busy", <<>>)
      [] OTHER -> ParseErr("UnknownOpcode", <<opc>>)

parse4(opc, args) ==
    CASE opc = 191 -> ParseOk("LocoAdr", AddressArg_parse(args[1], args[2]))
      [] opc = 189 -> ParseOk("SwAck", SwitchArg_parse(args[1], args[2]))
      [] opc = 188 -> ParseOk("SwState", SwitchArg_parse(args[1], args[2]))
      [] opc = 187 -> ParseOk("RqSlData", SlotArg_parse(args[1]))
      [] opc = 186 -> ParseOk("MoveSlots", SlotArg_parse(args[1]) \o SlotArg_parse(args[2]))
      [] opc = 185 -> ParseOk("LinkSlots", SlotArg_parse(args[1]) \o SlotArg_parse(args[2]))
      [] opc = 184 -> ParseOk("UnlinkSlots", SlotArg_parse(args[1]) \o SlotArg_parse(args[2]))
      [] opc = 182 -> ParseOk("ConsistFunc", SlotArg_parse(args[1]) \o DirfArg_parse(args[2]))
      [] opc = 181 -> IF Stat1Arg_panics(args[2]) THEN ParsePanic
                      ELSE ParseOk("SlotStat1", SlotArg_parse(args[1]) \o Stat1Arg_parse(args[2]))
      [] opc = 180 -> ParseOk("LongAck", LopcArg_parse(args[1]) \o Ack1Arg_parse(args[2]))
      [] opc = 178 -> ParseOk("InputRep", InArg_parse(args[1], args[2]))
      [] opc = 177 -> ParseOk("SwRep", SnArg_parse(args[1], args[2]))
      [] opc = 176 -> ParseOk("SwReq", SwitchArg_parse(args[1], args[2]))
      [] opc = 162 -> ParseOk("LocoSnd", SlotArg_parse(args[1]) \o SndArg_parse(args[2]))
      [] opc = 161 -> ParseOk("LocoDirf", SlotArg_parse(args[1]) \o DirfArg_parse(args[2]))
      [] opc = 160 -> ParseOk("LocoSpd", SlotArg_parse(args[1]) \o SpeedArg_parse(args[2]))
      [] OTHER -> ParseErr("UnknownOpcode", <<opc>>)

parse6(opc, args) ==
    CASE opc = 208 -> ParseOk("MultiSense", MTypeArg_parse(args[1]) \o ZasArg_parse(args[2])
                                               \o SenseAddrArg_parse(args[3], args[4]))
      [] opc = 212 -> IF args[1] # 32 THEN ParsePanic
                      ELSE ParseOk("UhliFun", SlotArg_parse(args[2])
                                                 \o FunctionArg_parse(args[3], args[4]))
      [] OTHER -> ParseErr("UnknownOpcode", <<opc>>)

\* args = buf[1..var-1]: args[1] here is Rust's args[0], the length byte
parse_var(opc, args, chk) ==
    CASE opc = 231 ->
            IF Len(args) < 12 \/ Stat1Arg_panics(args[3]) THEN ParsePanic
            ELSE ParseOk("SlRdData",
                    SlotArg_parse(args[2]) \o Stat1Arg_parse(args[3])
                    \o AddressArg_parse(args[9], args[4]) \o SpeedArg_parse(args[5])
                    \o DirfArg_parse(args[6]) \o TrkArg_parse(args[7])
                    \o Stat2Arg_parse(args[8]) \o SndArg_parse(args[10])
                    \o IdArg_parse(args[11], args[12]))
      [] opc = 237 ->
            IF Len(args) < 9 \/ ImArg_panics(args[2]) THEN ParsePanic
            ELSE ParseOk("ImmPacket", ImArg_parse(args[2], args[3], args[4], args[5],
                                                  args[6], args[7], args[8], args[9]))
      [] opc = 239 ->
            IF Len(args) < 12 \/ WrSlDataStructure_panics(SubSeq(args, 2, 12), chk)
            THEN ParsePanic
            ELSE ParseOk("WrSlData", WrSlDataStructure_parse(SubSeq(args, 2, 12)))
      [] OTHER -> ParseErr("UnknownOpcode", <<opc>>)

\* the length table with the six-byte class read as four bytes
ClassLen_six_as_four(opc, byte1) ==
    CASE BitAnd(opc, 224) = 128 -> 2
      [] BitAnd(opc, 224) = 160 -> 4
      [] BitAnd(opc, 224) = 192 -> 4
      [] BitAnd(opc, 224) = 224 -> byte1
      [] OTHER -> -1

\* the opcode class: frame length from the three most significant bits
ClassLen(opc, byte1) ==
    CASE BitAnd(opc, 224) = 128 -> 2
      [] BitAnd(opc, 224) = 160 -> 4
      [] BitAnd(opc, 224) = 192 -> 6
      [] BitAnd(opc, 224) = 224 -> byte1
      [] OTHER -> -1

\* Message::parse over the bytes `stream` yields; chk: the build checks overflow
MessageParse(stream, chk) ==
    IF Len(stream) < 2 THEN ParseErr("UnexpectedEnd", <<>>)
    ELSE LET opc == stream[1]
             len == ClassLen(opc, stream[2])
         IN  IF len < 0 THEN ParseErr("UnknownOpcode", <<opc>>)
             ELSE IF len > 2 /\ Len(stream) < len THEN ParseErr("UnexpectedEnd", <<>>)
             ELSE IF ~validate(SubSeq(stream, 1, len)) THEN ParseErr("InvalidChecksum", <<>>)
             ELSE CASE len = 2 -> parse2(opc)
                    [] len = 4 -> parse4(opc, SubSeq(stream, 2, 3))
                    [] len = 6 -> parse6(opc, SubSeq(stream, 2, 5))
                    [] len < 2 -> ParsePanic
                    [] OTHER -> parse_var(opc, SubSeq(stream, 2, len - 1), chk)

\* the frame before the checksum byte is appended
MessageBody(m) ==
    LET f == m.tag
        a == m.f
    IN  CASE f = "Idle" -> << 133 >>
          [] f = "GpOn" -> << 131 >>
          [] f = "GpOff" -> << 130 >>
          [] f = "Busy" -> << 129 >>
          [] f = "LocoAdr" -> << 191, AddressArg_adr2(a), AddressArg_adr1(a) >>
          [] f = "SwAck" -> << 189, SwitchArg_sw1(a), SwitchArg_sw2(a) >>
          [] f = "SwState" -> << 188, SwitchArg_sw1(a), SwitchArg_sw2(a) >>
          [] f = "RqSlData" -> << 187, SlotArg_slot(a), 0 >>
          [] f = "MoveSlots" -> << 186, a[1], a[2] >>
          [] f = "LinkSlots" -> << 185, a[1], a[2] >>
          [] f = "UnlinkSlots" -> << 184, a[1], a[2] >>
          [] f = "ConsistFunc" -> << 182, a[1], DirfArg_dirf(SubSeq(a, 2, 2)) >>
          [] f = "SlotStat1" -> << 181, a[1], Stat1Arg_stat1(SubSeq(a, 2, 5)) >>
          [] f = "LongAck" -> << 180, LopcArg_lopc(SubSeq(a, 1, 1)), Ack1Arg_ack1(SubSeq(a, 2, 2)) >>
          [] f = "InputRep" -> << 178, InArg_in1(a), InArg_in2(a) >>
          [] f = "SwRep" -> << 177, SnArg_sn1(a), SnArg_sn2(a) >>
          [] f = "SwReq" -> << 176, SwitchArg_sw1(a), SwitchArg_sw2(a) >>
          [] f = "LocoSnd" -> << 162, a[1], SndArg_snd(SubSeq(a, 2, 2)) >>
          [] f = "LocoDirf" -> << 161, a[1], DirfArg_dirf(SubSeq(a, 2, 2)) >>
          [] f = "LocoSpd" -> << 160, a[1], SpeedArg_spd(SubSeq(a, 2, 3)) >>
          [] f = "MultiSense" -> << 208, MTypeArg_m_type(SubSeq(a, 1, 1)), ZasArg_zas(SubSeq(a, 2, 2)),
                                    SenseAddrArg_addr1(SubSeq(a, 3, 3)), SenseAddrArg_addr2(SubSeq(a, 3, 3)) >>
          [] f = "UhliFun" -> << 212, 32, a[1], FunctionArg_group(SubSeq(a, 2, 3)),
                                 FunctionArg_function(SubSeq(a, 2, 3)) >>
          [] f = "WrSlData" -> WrSlDataStructure_to_message(a)
          [] f = "SlRdData" ->
                << 231, 14, a[1], Stat1Arg_stat1(SubSeq(a, 2, 5)), AddressArg_adr1(SubSeq(a, 6, 6)),
                   SpeedArg_spd(SubSeq(a, 7, 8)), DirfArg_dirf(SubSeq(a, 9, 9)),
                   TrkArg_trk_arg(SubSeq(a, 10, 13)), Stat2Arg_stat2(SubSeq(a, 14, 16)),
                   AddressArg_adr2(SubSeq(a, 6, 6)), SndArg_snd(SubSeq(a, 17, 17)),
                   IdArg_id1(SubSeq(a, 18, 19)), IdArg_id2(SubSeq(a, 18, 19)) >>
          [] f = "ImmPacket" ->
                << 237, 11, 127, ImArg_reps(a), ImArg_dhi(a), ImArg_im1(a), ImArg_im2(a),
                   ImArg_im3(a), ImArg_im4(a), ImArg_im5(a) >>

\* Message::to_message: the body followed by check_sum of the body
to_message(m) == Append(MessageBody(m), check_sum(MessageBody(m)))

(***************************************************************************)
(* Classification helpers used by the reader                               *)
(***************************************************************************)
\* Message::opc: the opcode byte to_message writes first
MessageOpc(m) == MessageBody(m)[1]

\* Message::answer_follows ("expects-acknowledgment")
answer_follows(m) ==
    m.tag \in {"LocoAdr", "SwAck", "SwState", "SwReq", "WrSlData", "ImmPacket"}

\* Message::await_slot_data ("expects-slot-data")
await_slot_data(m) ==
    m.tag \in {"LocoAdr", "RqSlData", "MoveSlots", "LinkSlots", "UnlinkSlots"}

\* check_opc that accepts every opcode copy
check_opc_any(lopc, message) == TRUE

\* LopcArg::check_opc (args.rs): message.opc() & 0x7F == self.0
check_opc(lopc, message) == BitAnd(MessageOpc(message), 127) = lopc[1]

(***************************************************************************)
(* State                                                                   *)
(***************************************************************************)
VARIABLES
    \* codec runs: the message, its frame, the parse result, the step
    cmsg, cframe, cres, cpc,
    \* whether the build panics on arithmetic overflow
    overflow_checks,
    \* LocoDriveController::new(.., ignore_send_messages)
    ignore_send_messages,
    \* transport: bytes waiting at the reader's port, frames written, chunks delivered
    inbound, wire, injected,
    \* reader task: position, bytes read of the current frame, bytes still to read
    rpc, buf, need,
    \* reader task: `lack` and `last_message` of start_reading_thread
    await_response, last_message,
    \* the reader's Notified future on fire_stop has been woken
    rwake,
    \* events pushed to the broadcast sender, frames the reader completed
    sink, rlog,
    \* send.0 (the pending-echo slot), its mutex poisoned, wait_for_write's owner
    last_send, poisoned, wait_for_write,
    \* callers of send_message: position, message, result, woken, calls made
    spc, smsg, sres, swake, calls,
    \* stop: Mutex<bool>; reading_thread: Option<JoinHandle>; stop_reader's position
    stop, reading_thread, stpc,
    \* history: since the current call published / wrote, the reader completed a
    \* frame equal to the call's frame; the reader cleared the slot before the
    \* call registered for the notification
    echoSincePublish, echoSinceWrite, clearedBeforeWait

codecVars == << cmsg, cframe, cres, cpc >>

readerVars == << rpc, buf, need, await_response, last_message, rwake, sink, rlog >>

senderVars == << spc, smsg, sres, swake, calls, wait_for_write >>

stopVars == << stop, reading_thread, stpc >>

ghostVars == << echoSincePublish, echoSinceWrite, clearedBeforeWait >>

ctlVars == << ignore_send_messages, inbound, wire, injected, readerVars, last_send,
              poisoned, senderVars, stopVars, ghostVars >>

vars == << codecVars, overflow_checks, ctlVars >>

(***************************************************************************)
(* Bounds and the inputs of the model                                      *)
(***************************************************************************)
\* transport events at the reader's port: chunks of bytes delivered, reads that fail
MaxInject == 2

\* send_message calls per caller
MaxCalls == 1

Callers == {1, 2}

NoMsg == Msg("none", <<>>)

\* a frame as a conforming bus device sends it
WireFrame(body) == Append(body, BitXor(255, FoldXor(body)))

Decoded(frame) == LET r == MessageParse(frame, FALSE) IN Msg(r.tag, r.f)

M_SwReq == Decoded(WireFrame(<< 176, 15, 48 >>))

M_GpOn == Decoded(WireFrame(<< 131 >>))

\* what the callers send
SendMessages == { M_SwReq, M_GpOn }

\* caller 1 sends the switch request, caller 2 the power-on broadcast
MessagesOf(i) == IF i = 1 THEN { M_SwReq } ELSE { M_GpOn }

F_SwReq == WireFrame(<< 176, 15, 48 >>)

F_LocoAdr == WireFrame(<< 191, 0, 5 >>)

F_LongAck == WireFrame(<< 180, 48, 127 >>)

F_SlRdData == WireFrame(<< 231, 14, 3, 51, 5, 0, 0, 7, 0, 0, 0, 0, 0 >>)

F_GpOn == WireFrame(<< 131 >>)

\* OPC_UHLI_FUN whose first argument is not 0x20
F_BadFun == WireFrame(<< 212, 0, 3, 7, 1 >>)

\* the first two bytes of a four-byte frame; nothing follows
F_Truncated == << 176, 15 >>

\* OPC_RQ_SL_DATA for slot 3
F_RqSlData == WireFrame(<< 187, 3, 0 >>)

F_Busy == WireFrame(<< 129 >>)

\* a variable-length opcode followed by the length byte 0
F_ShortLen == << 231, 0 >>

Chunks ==
    { F_SwReq, F_LocoAdr, F_RqSlData, F_LongAck, F_SlRdData, F_Busy, F_BadFun,
      F_Truncated, F_ShortLen }
        \cup { to_message(m) : m \in SendMessages }

(***************************************************************************)
(* Reader task (start_reading_thread, handle_next_message,                 *)
(* read_next_message)                                                      *)
(***************************************************************************)
EvMessage(m) == [ev |-> "Message", m |-> m, r |-> NoMsg]

EvAnswer(m, r) == [ev |-> "Answer", m |-> m, r |-> r]

EvError(e) == [ev |-> "Error", m |-> e, r |-> NoMsg]

EvSerialPortError == [ev |-> "SerialPortError", m |-> NoMsg, r |-> NoMsg]

\* Err(MessageParseError::Update)
ParseUpdate == [t |-> "Update", tag |-> "Update", f |-> <<>>]

\* handle_next_message that drops a decode error without an event
handle_next_message_silent(aw, last, parsed) ==
    IF parsed.t \in {"Update", "Err"} THEN [events |-> <<>>, aw |-> aw, last |-> last]
    ELSE LET message == Msg(parsed.tag, parsed.f)
             answer ==
                 aw /\ \/ message.tag = "LongAck" /\ check_opc(SubSeq(message.f, 1, 1), last)
                       \/ message.tag = "SlRdData" /\ await_slot_data(last)
         IN  [events |-> (IF answer THEN << EvAnswer(message, last) >> ELSE <<>>)
                            \o << EvMessage(message) >>,
              aw |-> IF answer_follows(message) THEN TRUE
                     ELSE IF message.tag # "Busy" THEN FALSE ELSE aw,
              last |-> IF answer_follows(message) THEN message ELSE last]

\* handle_next_message that sends the Message event before the Answer event
handle_next_message_message_first(aw, last, parsed) ==
    IF parsed.t = "Update" THEN [events |-> <<>>, aw |-> aw, last |-> last]
    ELSE IF parsed.t = "Err"
    THEN [events |-> << EvError(Msg(parsed.tag, parsed.f)) >>, aw |-> FALSE, last |-> last]
    ELSE LET message == Msg(parsed.tag, parsed.f)
             answer ==
                 aw /\ \/ message.tag = "LongAck" /\ check_opc(SubSeq(message.f, 1, 1), last)
                       \/ message.tag = "SlRdData" /\ await_slot_data(last)
         IN  [events |-> << EvMessage(message) >>
                            \o (IF answer THEN << EvAnswer(message, last) >> ELSE <<>>),
              aw |-> IF answer_follows(message) THEN TRUE
                     ELSE IF message.tag # "Busy" THEN FALSE ELSE aw,
              last |-> IF answer_follows(message) THEN message ELSE last]

\* handle_next_message in which a Busy message ends the awaiting
handle_next_message_busy_clears(aw, last, parsed) ==
    IF parsed.t = "Update" THEN [events |-> <<>>, aw |-> aw, last |-> last]
    ELSE IF parsed.t = "Err"
    THEN [events |-> << EvError(Msg(parsed.tag, parsed.f)) >>, aw |-> FALSE, last |-> last]
    ELSE LET message == Msg(parsed.tag, parsed.f)
             answer ==
                 aw /\ \/ message.tag = "LongAck" /\ check_opc(SubSeq(message.f, 1, 1), last)
                       \/ message.tag = "SlRdData" /\ await_slot_data(last)
         IN  [events |-> (IF answer THEN << EvAnswer(message, last) >> ELSE <<>>)
                            \o << EvMessage(message) >>,
              aw |-> answer_follows(message),
              last |-> IF answer_follows(message) THEN message ELSE last]

\* the match arms of handle_next_message on the result of read_next_message:
\* the events sent to the sink and the new await_response / last_message
handle_next_message(aw, last, parsed) ==
    IF parsed.t = "Update" THEN [events |-> <<>>, aw |-> aw, last |-> last]
    ELSE IF parsed.t = "Err"
    THEN [events |-> << EvError(Msg(parsed.tag, parsed.f)) >>, aw |-> FALSE, last |-> last]
    ELSE LET message == Msg(parsed.tag, parsed.f)
             answer ==
                 aw /\ \/ message.tag = "LongAck" /\ check_opc(SubSeq(message.f, 1, 1), last)
                       \/ message.tag = "SlRdData" /\ await_slot_data(last)
         IN  [events |-> (IF answer THEN << EvAnswer(message, last) >> ELSE <<>>)
                            \o << EvMessage(message) >>,
              aw |-> IF answer_follows(message) THEN TRUE
                     ELSE IF message.tag # "Busy" THEN FALSE ELSE aw,
              last |-> IF answer_follows(message) THEN message ELSE last]

\* the echo check without the comparison of the bytes
EchoMatches_nonempty(pending, frame) == pending # <<>>

\* !last_send.is_empty() && last_send == buf
EchoMatches(pending, frame) == pending # <<>> /\ pending = frame

InFlight == {"published", "written", "checked", "waiting"}

\* a reader that reports the failure to open the port and enters its loop
OpenPort_continue ==
    /\ rpc = "open"
    /\ rpc' = "test"
    /\ \/ sink' = sink
       \/ sink' = Append(sink, EvSerialPortError)
    /\ UNCHANGED << codecVars, overflow_checks, ignore_send_messages, inbound, wire, injected,
                    buf, need, await_response, last_message, rwake, rlog, last_send,
                    poisoned, senderVars, stopVars, ghostVars >>

\* tokio::spawn: open the reader's own port
OpenPort ==
    /\ rpc = "open"
    /\ \/ /\ rpc' = "test"
          /\ sink' = sink
       \/ /\ rpc' = "exited"
          /\ sink' = Append(sink, EvSerialPortError)
    /\ UNCHANGED << codecVars, overflow_checks, ignore_send_messages, inbound, wire, injected,
                    buf, need, await_response, last_message, rwake, rlog, last_send,
                    poisoned, senderVars, stopVars, ghostVars >>

\* while !*stop.lock().unwrap()
TestStop ==
    /\ rpc = "test"
    /\ rpc' = IF stop THEN "exited" ELSE "select"
    /\ UNCHANGED << codecVars, overflow_checks, ignore_send_messages, inbound, wire, injected,
                    buf, need, await_response, last_message, rwake, sink, rlog, last_send,
                    poisoned, senderVars, stopVars, ghostVars >>

\* select!: port.read_exact(&mut buf) and stopping.notified() are created
EnterSelect ==
    /\ rpc = "select"
    /\ rpc' = "parked"
    /\ rwake' = FALSE
    /\ UNCHANGED << codecVars, overflow_checks, ignore_send_messages, inbound, wire, injected,
                    buf, need, await_response, last_message, sink, rlog, last_send,
                    poisoned, senderVars, stopVars, ghostVars >>

\* the notified() branch: Err(Update), which handle_next_message ignores
WakeByStop ==
    /\ rpc = "parked"
    /\ rwake
    /\ rpc' = "test"
    /\ rwake' = FALSE
    /\ UNCHANGED << codecVars, overflow_checks, ignore_send_messages, inbound, wire, injected,
                    buf, need, await_response, last_message, sink, rlog, last_send,
                    poisoned, senderVars, stopVars, ghostVars >>

\* the read branch: the opcode byte, and the length its class gives
ReadOpcode ==
    /\ rpc = "parked"
    /\ inbound # <<>>
    /\ LET opc == Head(inbound)
           class == BitAnd(opc, 224)
       IN  /\ inbound' = Tail(inbound)
           /\ rwake' = FALSE
           /\ IF class \in {128, 160, 192}
              THEN /\ rpc' = "rest"
                   /\ buf' = << opc >>
                   /\ need' = (CASE class = 128 -> 2 [] class = 160 -> 4 [] OTHER -> 6) - 1
                   /\ UNCHANGED << await_response, last_message, sink, rlog >>
              ELSE IF class = 224
              THEN /\ rpc' = "len"
                   /\ buf' = << opc >>
                   /\ UNCHANGED << need, await_response, last_message, sink, rlog >>
              ELSE LET h == handle_next_message(await_response, last_message,
                                                ParseErr("UnknownOpcode", << opc >>))
                   IN  /\ rpc' = "test"
                       /\ buf' = <<>>
                       /\ need' = 0
                       /\ sink' = sink \o h.events
                       /\ await_response' = h.aw
                       /\ last_message' = h.last
                       /\ rlog' = Append(rlog, << opc >>)
    /\ UNCHANGED << codecVars, overflow_checks, ignore_send_messages, wire, injected,
                    last_send, poisoned, senderVars, stopVars, ghostVars >>

\* class 0xE0: the second byte is the frame length; `read_len[0] as usize - 1`
\* and `len - 1` underflow for a length byte of 0 or 1 and the task panics
ReadLength ==
    /\ rpc = "len"
    /\ inbound # <<>>
    /\ LET b == Head(inbound)
       IN  /\ inbound' = Tail(inbound)
           /\ buf' = Append(buf, b)
           /\ IF b < 2
              THEN rpc' = "panicked" /\ need' = 0
              ELSE rpc' = "rest" /\ need' = b - 2
    /\ UNCHANGED << codecVars, overflow_checks, ignore_send_messages, wire, injected,
                    await_response, last_message, rwake, sink, rlog, last_send,
                    poisoned, senderVars, stopVars, ghostVars >>

\* read_exact of the remaining bytes, the echo check under the slot's mutex,
\* Message::parse (the guard is still held), and handle_next_message's match
ReadRest ==
    /\ rpc = "rest"
    /\ Len(inbound) >= need
    /\ LET frame == buf \o SubSeq(inbound, 1, need)
           echo == EchoMatches(last_send, frame)
           parsed == IF echo /\ ignore_send_messages THEN ParseUpdate
                     ELSE MessageParse(frame, overflow_checks)
           h == handle_next_message(await_response, last_message, parsed)
       IN  /\ inbound' = SubSeq(inbound, need + 1, Len(inbound))
           /\ buf' = <<>>
           /\ need' = 0
           /\ rlog' = Append(rlog, frame)
           /\ last_send' = IF echo THEN <<>> ELSE last_send
           /\ swake' = [i \in Callers |-> swake[i] \/ (echo /\ spc[i] = "waiting")]
           /\ echoSincePublish' =
                [i \in Callers |-> echoSincePublish[i]
                                     \/ (spc[i] \in InFlight /\ frame = to_message(smsg[i]))]
           /\ echoSinceWrite' =
                [i \in Callers |-> echoSinceWrite[i]
                                     \/ (spc[i] \in InFlight \ {"published"}
                                            /\ frame = to_message(smsg[i]))]
           /\ clearedBeforeWait' =
                [i \in Callers |-> clearedBeforeWait[i]
                                     \/ (echo /\ spc[i] \in InFlight \ {"waiting"})]
           /\ IF parsed.t = "Panic"
              THEN /\ rpc' = "panicked"
                   /\ poisoned' = TRUE
                   /\ UNCHANGED << sink, await_response, last_message >>
              ELSE /\ rpc' = "test"
                   /\ poisoned' = poisoned
                   /\ sink' = sink \o h.events
                   /\ await_response' = h.aw
                   /\ last_message' = h.last
    /\ UNCHANGED << codecVars, overflow_checks, ignore_send_messages, wire, injected,
                    rwake, spc, smsg, sres, calls, wait_for_write, stopVars >>

\* port.read_exact returns Err at the opcode, the length byte or the rest of
\* the frame: Err(UnexpectedEnd), which handle_next_message reports; the
\* `while` loop goes on.  A read failure counts as a transport event.
ReadFails ==
    /\ rpc \in {"parked", "len", "rest"}
    /\ injected < MaxInject
    /\ injected' = injected + 1
    /\ LET h == handle_next_message(await_response, last_message,
                                    ParseErr("UnexpectedEnd", <<>>))
       IN  /\ sink' = sink \o h.events
           /\ await_response' = h.aw
           /\ last_message' = h.last
    /\ rpc' = "test"
    /\ buf' = <<>>
    /\ need' = 0
    /\ rwake' = FALSE
    /\ UNCHANGED << codecVars, overflow_checks, ignore_send_messages, inbound, wire, rlog,
                    last_send, poisoned, senderVars, stopVars, ghostVars >>

(***************************************************************************)
(* send_message                                                            *)
(***************************************************************************)
\* a lock that is handed out while it is held
MayAcquire_always(owner, i) == TRUE

\* wait_for_write.lock().await resolves for caller i
MayAcquire(owner, i) == owner = 0

\* the guard `_send_message_waiting` is dropped when the call ends
Release(i) == IF wait_for_write = i THEN 0 ELSE wait_for_write

\* a call begins: `if self.reading_thread.is_none()`
Call(i, m) ==
    /\ spc[i] \in {"idle", "done"}
    /\ calls[i] < MaxCalls
    /\ calls' = [calls EXCEPT ![i] = @ + 1]
    /\ smsg' = [smsg EXCEPT ![i] = m]
    /\ swake' = [swake EXCEPT ![i] = FALSE]
    /\ IF reading_thread
       THEN /\ spc' = [spc EXCEPT ![i] = "called"]
            /\ sres' = [sres EXCEPT ![i] = "none"]
       ELSE /\ spc' = [spc EXCEPT ![i] = "done"]
            /\ sres' = [sres EXCEPT ![i] = "IllegalState"]
    /\ echoSincePublish' = [echoSincePublish EXCEPT ![i] = FALSE]
    /\ echoSinceWrite' = [echoSinceWrite EXCEPT ![i] = FALSE]
    /\ clearedBeforeWait' = [clearedBeforeWait EXCEPT ![i] = FALSE]
    /\ UNCHANGED << codecVars, overflow_checks, ignore_send_messages, inbound, wire, injected,
                    readerVars, last_send, poisoned, wait_for_write, stopVars >>

Acquire(i) ==
    /\ spc[i] = "called"
    /\ MayAcquire(wait_for_write, i)
    /\ wait_for_write' = i
    /\ spc' = [spc EXCEPT ![i] = "locked"]
    /\ UNCHANGED << codecVars, overflow_checks, ignore_send_messages, inbound, wire, injected,
                    readerVars, last_send, poisoned, smsg, sres, swake, calls, stopVars,
                    ghostVars >>

\* `*send = bytes.clone()` under lock.lock().unwrap(), which panics once the
\* reader has panicked holding the mutex
Publish(i) ==
    /\ spc[i] = "locked"
    /\ IF poisoned
       THEN /\ spc' = [spc EXCEPT ![i] = "panicked"]
            /\ wait_for_write' = Release(i)
            /\ UNCHANGED last_send
       ELSE /\ spc' = [spc EXCEPT ![i] = "published"]
            /\ last_send' = to_message(smsg[i])
            /\ UNCHANGED wait_for_write
    /\ UNCHANGED << codecVars, overflow_checks, ignore_send_messages, inbound, wire, injected,
                    readerVars, poisoned, smsg, sres, swake, calls, stopVars, ghostVars >>

\* self.port.write_all(&bytes).await
Write(i) ==
    /\ spc[i] = "published"
    /\ \/ /\ wire' = Append(wire, to_message(smsg[i]))
          /\ spc' = [spc EXCEPT ![i] = "written"]
          /\ UNCHANGED << sres, wait_for_write >>
       \/ /\ spc' = [spc EXCEPT ![i] = "done"]
          /\ sres' = [sres EXCEPT ![i] = "NotWritable"]
          /\ wait_for_write' = Release(i)
          /\ UNCHANGED wire
    /\ UNCHANGED << codecVars, overflow_checks, ignore_send_messages, inbound, injected,
                    readerVars, last_send, poisoned, smsg, swake, calls, stopVars, ghostVars >>

\* `if !(*lock.lock().unwrap()).is_empty()`
CheckEcho(i) ==
    /\ spc[i] = "written"
    /\ IF poisoned
       THEN /\ spc' = [spc EXCEPT ![i] = "panicked"]
            /\ wait_for_write' = Release(i)
            /\ UNCHANGED sres
       ELSE IF last_send = <<>>
       THEN /\ spc' = [spc EXCEPT ![i] = "done"]
            /\ sres' = [sres EXCEPT ![i] = "Ok"]
            /\ wait_for_write' = Release(i)
       ELSE /\ spc' = [spc EXCEPT ![i] = "checked"]
            /\ UNCHANGED << sres, wait_for_write >>
    /\ UNCHANGED << codecVars, overflow_checks, ignore_send_messages, inbound, wire, injected,
                    readerVars, last_send, poisoned, smsg, swake, calls, stopVars, ghostVars >>

\* select!: notify.notified() and sleep(sending_timeout) are created
Register(i) ==
    /\ spc[i] = "checked"
    /\ spc' = [spc EXCEPT ![i] = "waiting"]
    /\ swake' = [swake EXCEPT ![i] = FALSE]
    /\ UNCHANGED << codecVars, overflow_checks, ignore_send_messages, inbound, wire, injected,
                    readerVars, last_send, poisoned, smsg, sres, calls, wait_for_write,
                    stopVars, ghostVars >>

\* the notified() branch
Confirmed(i) ==
    /\ spc[i] = "waiting"
    /\ swake[i]
    /\ spc' = [spc EXCEPT ![i] = "done"]
    /\ sres' = [sres EXCEPT ![i] = "Ok"]
    /\ wait_for_write' = Release(i)
    /\ UNCHANGED << codecVars, overflow_checks, ignore_send_messages, inbound, wire, injected,
                    readerVars, last_send, poisoned, smsg, swake, calls, stopVars, ghostVars >>

\* a timeout that empties the pending-echo slot
TimedOut_clears(i) ==
    /\ spc[i] = "waiting"
    /\ spc' = [spc EXCEPT ![i] = "done"]
    /\ sres' = [sres EXCEPT ![i] = "Timeout"]
    /\ wait_for_write' = Release(i)
    /\ last_send' = <<>>
    /\ UNCHANGED << codecVars, overflow_checks, ignore_send_messages, inbound, wire, injected,
                    readerVars, poisoned, smsg, swake, calls, stopVars, ghostVars >>

\* the sleep branch
TimedOut(i) ==
    /\ spc[i] = "waiting"
    /\ spc' = [spc EXCEPT ![i] = "done"]
    /\ sres' = [sres EXCEPT ![i] = "Timeout"]
    /\ wait_for_write' = Release(i)
    /\ UNCHANGED << codecVars, overflow_checks, ignore_send_messages, inbound, wire, injected,
                    readerVars, last_send, poisoned, smsg, swake, calls, stopVars, ghostVars >>

(***************************************************************************)
(* stop_reader                                                             *)
(***************************************************************************)
\* self.reading_thread.take() is Some: *self.stop.lock().unwrap() = true
StopBegin ==
    /\ stpc = "none"
    /\ reading_thread
    /\ reading_thread' = FALSE
    /\ stop' = TRUE
    /\ stpc' = "set"
    /\ UNCHANGED << codecVars, overflow_checks, ignore_send_messages, inbound, wire, injected,
                    readerVars, last_send, poisoned, senderVars, ghostVars >>

\* self.fire_stop.notify_waiters(): wakes a Notified future that exists now
StopNotify ==
    /\ stpc = "set"
    /\ stpc' = "join"
    /\ rwake' = (rwake \/ rpc = "parked")
    /\ UNCHANGED << codecVars, overflow_checks, ignore_send_messages, inbound, wire, injected,
                    rpc, buf, need, await_response, last_message, sink, rlog, last_send,
                    poisoned, senderVars, stop, reading_thread, ghostVars >>

\* a join that does not wait for the task
Joined_always(reader) == TRUE

\* the reader task has ended
Joined(reader) == reader \in {"exited", "panicked"}

\* a stop_reader that leaves the stop flag set
StopJoin_keeps_flag ==
    /\ stpc = "join"
    /\ Joined(rpc)
    /\ stpc' = IF rpc = "panicked" THEN "panicked" ELSE "returned"
    /\ UNCHANGED << codecVars, overflow_checks, ignore_send_messages, inbound, wire, injected,
                    readerVars, last_send, poisoned, senderVars, stop, reading_thread,
                    ghostVars >>

\* reader.await.unwrap(), then *self.stop.lock().unwrap() = false
StopJoin ==
    /\ stpc = "join"
    /\ Joined(rpc)
    /\ IF rpc = "panicked"
       THEN stpc' = "panicked" /\ UNCHANGED stop
       ELSE stpc' = "returned" /\ stop' = FALSE
    /\ UNCHANGED << codecVars, overflow_checks, ignore_send_messages, inbound, wire, injected,
                    readerVars, last_send, poisoned, senderVars, reading_thread, ghostVars >>

\* a further stop_reader (or the drop after a stop): reading_thread.take()
\* is None and the call returns at once
StopAgain ==
    /\ stpc = "returned"
    /\ ~reading_thread
    /\ stpc' = "again"
    /\ UNCHANGED << codecVars, overflow_checks, ignore_send_messages, inbound, wire, injected,
                    readerVars, last_send, poisoned, senderVars, stop, reading_thread,
                    ghostVars >>

(***************************************************************************)
(* The bus                                                                 *)
(***************************************************************************)
Inject(c) ==
    /\ injected < MaxInject
    /\ injected' = injected + 1
    /\ inbound' = inbound \o c
    /\ UNCHANGED << codecVars, overflow_checks, ignore_send_messages, wire, readerVars,
                    last_send, poisoned, senderVars, stopVars, ghostVars >>

(***************************************************************************)
(* The controller                                                          *)
(***************************************************************************)
CodecIdle ==
    /\ cmsg = NoMsg
    /\ cframe = <<>>
    /\ cres = ParseUpdate
    /\ cpc = "off"

Init ==
    /\ CodecIdle
    /\ overflow_checks = TRUE
    /\ ignore_send_messages \in BOOLEAN
    /\ inbound = <<>>
    /\ wire = <<>>
    /\ injected = 0
    /\ rpc = "open"
    /\ buf = <<>>
    /\ need = 0
    /\ await_response = FALSE
    /\ last_message = Msg("Busy", <<>>)
    /\ rwake = FALSE
    /\ sink = <<>>
    /\ rlog = <<>>
    /\ last_send = <<>>
    /\ poisoned = FALSE
    /\ wait_for_write = 0
    /\ spc = [i \in Callers |-> "idle"]
    /\ smsg = [i \in Callers |-> NoMsg]
    /\ sres = [i \in Callers |-> "none"]
    /\ swake = [i \in Callers |-> FALSE]
    /\ calls = [i \in Callers |-> 0]
    /\ stop = FALSE
    /\ reading_thread = TRUE
    /\ stpc = "none"
    /\ echoSincePublish = [i \in Callers |-> FALSE]
    /\ echoSinceWrite = [i \in Callers |-> FALSE]
    /\ clearedBeforeWait = [i \in Callers |-> FALSE]

Reader ==
    \/ OpenPort
    \/ TestStop
    \/ EnterSelect
    \/ WakeByStop
    \/ ReadOpcode
    \/ ReadLength
    \/ ReadRest

Sender(i) ==
    \/ Acquire(i)
    \/ Publish(i)
    \/ Write(i)
    \/ CheckEcho(i)
    \/ Register(i)
    \/ Confirmed(i)
    \/ TimedOut(i)

Stopper ==
    \/ StopNotify
    \/ StopJoin
    \/ StopAgain

Next ==
    \/ Reader
    \/ \E i \in Callers : Sender(i)
    \/ \E i \in Callers : \E m \in MessagesOf(i) : Call(i, m)
    \/ StopBegin
    \/ Stopper
    \/ \E c \in Chunks : Inject(c)
    \/ ReadFails

Spec == Init /\ [][Next]_vars

(***************************************************************************)
(* Codec runs: a Message is built from its field codecs, written with      *)
(* to_message and read back with Message::parse                            *)
(***************************************************************************)
\* argument bytes the field codecs are built from
SampleBytes == { 0, 1, 10, 48, 123, 127 }

FourByteOpcodes == { 191, 189, 188, 187, 186, 185, 184, 182, 181, 180, 178, 177, 176,
                     162, 161, 160 }

OkMessages(results) == { Msg(r.tag, r.f) : r \in { x \in results : x.t = "Ok" } }

\* the Messages the field codecs can build from the sample bytes
CodecMessages ==
    OkMessages({ parse2(opc) : opc \in { 133, 131, 130, 129 } })
    \cup OkMessages({ parse4(opc, << a, b >>) :
                        opc \in FourByteOpcodes, a \in SampleBytes, b \in SampleBytes })
    \cup OkMessages({ parse6(opc, << 32, a, 7, b >>) :
                        opc \in { 208, 212 }, a \in SampleBytes, b \in SampleBytes })
    \cup OkMessages({ parse_var(231, << 14, a, 51, b, c, 0, 7, 0, 0, 0, 0, 0 >>, FALSE) :
                        a \in SampleBytes, b \in SampleBytes, c \in SampleBytes })
    \cup OkMessages({ parse_var(237, << 11, 127, r, 0, a, b, 94, 1, 0 >>, FALSE) :
                        r \in { 52, 68 }, a \in SampleBytes, b \in SampleBytes })
    \cup OkMessages({ parse_var(239, << 14, a, 51, b, c, 0, 7, 0, 0, 0, 0, 0 >>, FALSE) :
                        a \in { 10, 123, 124 }, b \in SampleBytes, c \in SampleBytes })

CodecInit ==
    /\ cmsg \in CodecMessages
    /\ cframe = <<>>
    /\ cres = ParseUpdate
    /\ cpc = "built"
    /\ overflow_checks \in BOOLEAN
    /\ ignore_send_messages = FALSE
    /\ inbound = <<>>
    /\ wire = <<>>
    /\ injected = 0
    /\ rpc = "exited"
    /\ buf = <<>>
    /\ need = 0
    /\ await_response = FALSE
    /\ last_message = Msg("Busy", <<>>)
    /\ rwake = FALSE
    /\ sink = <<>>
    /\ rlog = <<>>
    /\ last_send = <<>>
    /\ poisoned = FALSE
    /\ wait_for_write = 0
    /\ spc = [i \in Callers |-> "idle"]
    /\ smsg = [i \in Callers |-> NoMsg]
    /\ sres = [i \in Callers |-> "none"]
    /\ swake = [i \in Callers |-> FALSE]
    /\ calls = [i \in Callers |-> 0]
    /\ stop = FALSE
    /\ reading_thread = FALSE
    /\ stpc = "returned"
    /\ echoSincePublish = [i \in Callers |-> FALSE]
    /\ echoSinceWrite = [i \in Callers |-> FALSE]
    /\ clearedBeforeWait = [i \in Callers |-> FALSE]

\* message.to_message()
Encode ==
    /\ cpc = "built"
    /\ cframe' = to_message(cmsg)
    /\ cpc' = "encoded"
    /\ UNCHANGED << cmsg, cres, overflow_checks, ctlVars >>

\* Message::parse over the bytes of the frame
Decode ==
    /\ cpc = "encoded"
    /\ cres' = MessageParse(cframe, overflow_checks)
    /\ cpc' = "parsed"
    /\ UNCHANGED << cmsg, cframe, overflow_checks, ctlVars >>

\* XOR masks that replace one byte of a frame by a different value
CorruptMasks == { 1, 128, 255 }

\* one byte of the frame is replaced on its way
Corrupt(pos, mask) ==
    /\ cpc = "encoded"
    /\ cframe' = [cframe EXCEPT ![pos] = BitXor(@, mask)]
    /\ cpc' = "corrupted"
    /\ UNCHANGED << cmsg, cres, overflow_checks, ctlVars >>

\* Message::parse over the bytes of the corrupted frame
DecodeCorrupted ==
    /\ cpc = "corrupted"
    /\ cres' = MessageParse(cframe, overflow_checks)
    /\ cpc' = "reparsed"
    /\ UNCHANGED << cmsg, cframe, overflow_checks, ctlVars >>

CodecNext ==
    \/ Encode
    \/ Decode
    \/ \E pos \in DOMAIN cframe, mask \in CorruptMasks : Corrupt(pos, mask)
    \/ DecodeCorrupted

CodecSpec == CodecInit /\ [][CodecNext]_vars

(***************************************************************************)
(* Parse runs: Message::parse over byte sequences as they may arrive       *)
(***************************************************************************)
\* frames with a valid checksum: well-formed ones of each opcode class, and
\* ones whose status byte, constant byte or declared length is off
RawWhole ==
    { WireFrame(b) : b \in { << 131 >>, << 176, 15, 48 >>, << 208, 0, 7, 1, 2 >>,
                             << 212, 32, 3, 7, 1 >>, << 212, 0, 3, 7, 1 >>,
                             << 231, 14, 3, 51, 5, 0, 0, 7, 0, 0, 0, 0, 0 >>,
                             << 231, 14, 3, 5, 5, 0, 0, 7, 0, 0, 0, 0, 0 >>,
                             << 237, 11, 127, 52, 0, 1, 2, 94, 1, 0 >>,
                             << 237, 11, 0, 52, 0, 1, 2, 94, 1, 0 >>,
                             << 239, 14, 10, 51, 5, 0, 0, 7, 0, 0, 0, 0, 0 >>,
                             << 231, 5, 3, 51 >>, << 231, 3 >> } }
        \cup { << 255, 1 >>, << 253, 2 >>, << 231, 0 >>, << 0, 255 >> }

Prefixes(f) == { SubSeq(f, 1, k) : k \in 0 .. Len(f) }

\* what the parser is given: the frames and every truncation of them
RawFrames == UNION { Prefixes(f) : f \in RawWhole }

ParseInit ==
    /\ cmsg = NoMsg
    /\ cframe \in RawFrames
    /\ cres = ParseUpdate
    /\ cpc = "raw"
    /\ overflow_checks \in BOOLEAN
    /\ ignore_send_messages = FALSE
    /\ inbound = <<>>
    /\ wire = <<>>
    /\ injected = 0
    /\ rpc = "exited"
    /\ buf = <<>>
    /\ need = 0
    /\ await_response = FALSE
    /\ last_message = Msg("Busy", <<>>)
    /\ rwake = FALSE
    /\ sink = <<>>
    /\ rlog = <<>>
    /\ last_send = <<>>
    /\ poisoned = FALSE
    /\ wait_for_write = 0
    /\ spc = [i \in Callers |-> "idle"]
    /\ smsg = [i \in Callers |-> NoMsg]
    /\ sres = [i \in Callers |-> "none"]
    /\ swake = [i \in Callers |-> FALSE]
    /\ calls = [i \in Callers |-> 0]
    /\ stop = FALSE
    /\ reading_thread = FALSE
    /\ stpc = "returned"
    /\ echoSincePublish = [i \in Callers |-> FALSE]
    /\ echoSinceWrite = [i \in Callers |-> FALSE]
    /\ clearedBeforeWait = [i \in Callers |-> FALSE]

\* Message::parse(&mut bytes.iter())
ParseRaw ==
    /\ cpc = "raw"
    /\ cres' = MessageParse(cframe, overflow_checks)
    /\ cpc' = "rawparsed"
    /\ UNCHANGED << cmsg, cframe, overflow_checks, ctlVars >>

ParseSpec == ParseInit /\ [][ParseRaw]_vars

(***************************************************************************)
(* Field runs: the public field codecs of args.rs are constructed or       *)
(* written, then read back                                                 *)
(***************************************************************************)
\* SpeedArg::parse (args.rs); <<kind (0 = Stop, 1 = EmergencyStop, 2 = Drive), n>>
args_SpeedArg_parse(spd) ==
    IF spd = 0 THEN <<0, 0>>
    ELSE IF spd = 1 THEN <<1, 0>>
    ELSE <<2, spd - 1>>

\* SpeedArg::spd (args.rs): Drive(spd) => (spd + 1) & 0x7F
args_SpeedArg_spd(a) ==
    IF a[1] = 0 THEN 0 ELSE IF a[1] = 1 THEN 1 ELSE BitAnd((a[2] + 1) % 256, 127)

\* SlotArg::new: Self(slot & 0x7F)
args_SlotArg_new(slot) == << BitAnd(slot, 127) >>

args_SlotArg_slot(a) == a[1]

\* AddressArg::new: Self(adr)
args_AddressArg_new(adr) == << adr >>

args_AddressArg_address(a) == a[1]

\* SwitchArg::new: Self { address, direction, state }
args_SwitchArg_new(address, direction, state) == << address, direction, state >>

args_SwitchArg_address(a) == a[1]

\* InArg::new: address: address & 0x07FF
args_InArg_new(address, input_source, sensor_level, control_bit) ==
    << BitAnd(address, 2047), input_source, sensor_level, control_bit >>

args_InArg_address(a) == a[1]

\* FunctionArg(group, function); FunctionArg::f
args_FunctionArg_f(a, f_num) ==
    IF f_num > 8 /\ f_num < 12 /\ a[1] = 7
    THEN BitAnd(Shr(a[2], f_num - 5), 1) # 0
    ELSE IF f_num \in {12, 20, 28} /\ a[1] = 5
    THEN BitAnd(Shr(a[2], IF f_num = 12 THEN 4 ELSE IF f_num = 20 THEN 5 ELSE 6), 1) # 0
    ELSE IF f_num > 12 /\ f_num < 20 /\ a[1] = 8
    THEN BitAnd(Shr(a[2], f_num - 13), 1) # 0
    ELSE IF f_num > 20 /\ f_num < 28 /\ a[1] = 9
    THEN BitAnd(Shr(a[2], f_num - 21), 1) # 0
    ELSE FALSE

\* FunctionArg::set_f
args_FunctionArg_set_f(a, f_num, value) ==
    LET mask == IF f_num > 8 /\ f_num < 12 /\ a[1] = 7
                THEN Shl(1, f_num - 5)
                ELSE IF f_num \in {12, 20, 28} /\ a[1] = 5
                THEN Shl(1, IF f_num = 12 THEN 0 ELSE IF f_num = 20 THEN 1 ELSE 2)
                ELSE IF f_num > 12 /\ f_num < 20 /\ a[1] = 8
                THEN Shl(1, f_num - 13)
                ELSE IF f_num > 20 /\ f_num < 28 /\ a[1] = 9
                THEN Shl(1, f_num - 21)
                ELSE 0
    IN  << a[1], IF value THEN BitOr(a[2], mask) ELSE BitAnd(a[2], 255 - mask) >>

\* the variants of WrSlDataStructure (args.rs), as <<variant, slot>>
DataPt == 0

DataTime == 1

DataGeneral == 2

\* WrSlDataStructure::slot_type, the byte to_message writes after the length
args_WrSlDataStructure_slot_type(w) ==
    IF w[1] = DataPt THEN 124
    ELSE IF w[1] = DataTime THEN 123
    ELSE args_SlotArg_slot(<< w[2] >>)

\* the first argument byte of WrSlDataStructure::to_message
args_WrSlDataStructure_to_message(w) == << args_WrSlDataStructure_slot_type(w) >>

\* the variant WrSlDataStructure::parse builds for the first argument byte
args_WrSlDataStructure_parse(arg1) ==
    IF arg1 = 124 THEN << DataPt, 0 >>
    ELSE IF arg1 = 123 THEN << DataTime, 0 >>
    ELSE << DataGeneral, args_SlotArg_slot(args_SlotArg_new(arg1)) >>

\* constructor inputs below, at and beyond the wire width of each field
NewInputs ==
    { Msg("SlotArg", << x >>) : x \in { 0, 72, 127, 128, 200, 255 } }
    \cup { Msg("AddressArg", << x >>) : x \in { 0, 200, 16383, 16384, 20000, 65535 } }
    \cup { Msg("SwitchArg", << x, d, st >>) :
             x \in { 0, 2047, 2048, 65535 }, d \in { 0, 1 }, st \in { 0, 1 } }
    \cup { Msg("InArg", << x, 1, 0, 0 >>) : x \in { 0, 2047, 2048, 65535 } }

FunctionBytes == { 0, 85, 127 }

FieldInputs ==
    { Msg("SpeedArg", << 0, 0 >>), Msg("SpeedArg", << 1, 0 >>) }
    \cup { Msg("SpeedArg", << 2, n >>) : n \in 0 .. 126 }
    \cup NewInputs
    \cup { Msg("FunctionArg", << g, b, f_num, v >>) :
             g \in { 7, 8, 5, 9 }, b \in FunctionBytes, f_num \in 8 .. 29, v \in { 0, 1 } }
    \cup { Msg("WrSlData", << DataPt, 0 >>), Msg("WrSlData", << DataTime, 0 >>) }
    \cup { Msg("WrSlData", << DataGeneral, slot >>) : slot \in 0 .. 127 }

FieldInit ==
    /\ cmsg \in FieldInputs
    /\ cframe = <<>>
    /\ cres = ParseUpdate
    /\ cpc = "field"
    /\ overflow_checks = TRUE
    /\ ignore_send_messages = FALSE
    /\ inbound = <<>>
    /\ wire = <<>>
    /\ injected = 0
    /\ rpc = "exited"
    /\ buf = <<>>
    /\ need = 0
    /\ await_response = FALSE
    /\ last_message = Msg("Busy", <<>>)
    /\ rwake = FALSE
    /\ sink = <<>>
    /\ rlog = <<>>
    /\ last_send = <<>>
    /\ poisoned = FALSE
    /\ wait_for_write = 0
    /\ spc = [i \in Callers |-> "idle"]
    /\ smsg = [i \in Callers |-> NoMsg]
    /\ sres = [i \in Callers |-> "none"]
    /\ swake = [i \in Callers |-> FALSE]
    /\ calls = [i \in Callers |-> 0]
    /\ stop = FALSE
    /\ reading_thread = FALSE
    /\ stpc = "returned"
    /\ echoSincePublish = [i \in Callers |-> FALSE]
    /\ echoSinceWrite = [i \in Callers |-> FALSE]
    /\ clearedBeforeWait = [i \in Callers |-> FALSE]

FieldStep(tag, from, to) ==
    /\ cpc = from
    /\ cmsg.tag = tag
    /\ cpc' = to
    /\ UNCHANGED << cmsg, overflow_checks, ctlVars >>

\* speed.spd()
SpeedEncode ==
    /\ FieldStep("SpeedArg", "field", "applied")
    /\ cframe' = << args_SpeedArg_spd(cmsg.f) >>
    /\ UNCHANGED cres

\* SpeedArg::parse(spd)
SpeedDecode ==
    /\ FieldStep("SpeedArg", "applied", "read")
    /\ cres' = ParseOk("SpeedArg", args_SpeedArg_parse(cframe[1]))
    /\ UNCHANGED cframe

\* SlotArg::new, AddressArg::new, SwitchArg::new, InArg::new
FieldNew ==
    /\ cpc = "field"
    /\ cmsg \in NewInputs
    /\ cframe' = CASE cmsg.tag = "SlotArg" -> args_SlotArg_new(cmsg.f[1])
                   [] cmsg.tag = "AddressArg" -> args_AddressArg_new(cmsg.f[1])
                   [] cmsg.tag = "SwitchArg" ->
                          args_SwitchArg_new(cmsg.f[1], cmsg.f[2], cmsg.f[3])
                   [] cmsg.tag = "InArg" ->
                          args_InArg_new(cmsg.f[1], cmsg.f[2], cmsg.f[3], cmsg.f[4])
    /\ cpc' = "applied"
    /\ UNCHANGED << cmsg, cres, overflow_checks, ctlVars >>

\* slot(), address()
FieldRead ==
    /\ cpc = "applied"
    /\ cmsg \in NewInputs
    /\ cres' = ParseOk(cmsg.tag,
                       << CASE cmsg.tag = "SlotArg" -> args_SlotArg_slot(cframe)
                            [] cmsg.tag = "AddressArg" -> args_AddressArg_address(cframe)
                            [] cmsg.tag = "SwitchArg" -> args_SwitchArg_address(cframe)
                            [] cmsg.tag = "InArg" -> args_InArg_address(cframe) >>)
    /\ cpc' = "read"
    /\ UNCHANGED << cmsg, cframe, overflow_checks, ctlVars >>

\* arg.set_f(f_num, value)
FunctionSet ==
    /\ FieldStep("FunctionArg", "field", "applied")
    /\ cframe' = args_FunctionArg_set_f(SubSeq(cmsg.f, 1, 2), cmsg.f[3], cmsg.f[4] = 1)
    /\ UNCHANGED cres

\* arg.f(f_num)
FunctionGet ==
    /\ FieldStep("FunctionArg", "applied", "read")
    /\ cres' = ParseOk("FunctionArg", << B2N(args_FunctionArg_f(cframe, cmsg.f[3])) >>)
    /\ UNCHANGED cframe

\* structure.to_message()
WrSlEncode ==
    /\ FieldStep("WrSlData", "field", "applied")
    /\ cframe' = args_WrSlDataStructure_to_message(cmsg.f)
    /\ UNCHANGED cres

\* WrSlDataStructure::parse(args[1], ..)
WrSlDecode ==
    /\ FieldStep("WrSlData", "applied", "read")
    /\ cres' = ParseOk("WrSlData", args_WrSlDataStructure_parse(cframe[1]))
    /\ UNCHANGED cframe

FieldNext ==
    \/ SpeedEncode
    \/ SpeedDecode
    \/ FieldNew
    \/ FieldRead
    \/ FunctionSet
    \/ FunctionGet
    \/ WrSlEncode
    \/ WrSlDecode

FieldSpec == FieldInit /\ [][FieldNext]_vars

(***************************************************************************)
(* C1, C2: the codec laws                                                  *)
(***************************************************************************)
\* C1: round-trip law: Message::parse of the bytes of m.to_message() returns
\* Ok(m), for every Message m the codecs can build
C1_RoundTrip ==
    cpc = "parsed" => cres = ParseOk(cmsg.tag, cmsg.f)

\* C2: checksum law: the byte to_message appends is 0xFF XOR the fold of the
\* bytes before it, the fold of the whole frame is 0xFF and the frame passes
\* the validation parse applies
C2_Checksum ==
    cpc \in {"encoded", "parsed"} =>
        /\ cframe[Len(cframe)] = BitXor(255, FoldXor(SubSeq(cframe, 1, Len(cframe) - 1)))
        /\ FoldXor(cframe) = 255
        /\ validate(cframe)

(***************************************************************************)
(* C3 .. C10: the duplex controller                                        *)
(***************************************************************************)
Results == {"Ok", "Timeout", "NotWritable", "IllegalState"}

\* C3 as stated: send_message returns Ok only if the reader read a frame
\* byte-equal to the call's frame after the call wrote it to the transport
C3_OkOnlyAfterWrite ==
    \A i \in Callers : sres[i] = "Ok" => echoSinceWrite[i]

\* C3 as amended: send_message returns Ok only if the reader read a frame
\* byte-equal to the call's frame after the call published it into the
\* pending-echo slot; a frame with different bytes, or one read before the
\* publication, never makes the call succeed
C3_OkOnlyAfterPublish ==
    \A i \in Callers : sres[i] = "Ok" => echoSincePublish[i]

\* a call confirmed by the notification, after the echo of its written frame
C3_Witness ==
    \E i \in Callers : sres[i] = "Ok" /\ echoSinceWrite[i] /\ swake[i]

\* C4: no lost wake-up: a call whose echo the reader read (slot cleared,
\* waiters notified) before the call's timeout began does not return Timeout
C4_NoLostWakeup ==
    \A i \in Callers : sres[i] = "Timeout" => ~clearedBeforeWait[i]

\* while a call is in flight the pending-echo slot is only ever cleared
SlotKept ==
    (\E i \in Callers : spc[i] \in InFlight /\ spc'[i] \in InFlight)
        => (last_send' = last_send \/ last_send' = <<>>)

\* C5: sends are serialized: at most one call is between publishing its frame
\* and returning, and the slot is not overwritten while a call is in flight
C5_Serialized ==
    /\ [](Cardinality({ i \in Callers : spc[i] \in InFlight }) <= 1)
    /\ [][SlotKept]_vars

\* one call waits for its echo while the other waits for the write lock
C5_Witness ==
    spc[1] = "waiting" /\ spc[2] = "called"

AnswersIn(s) == { k \in DOMAIN s : s[k].ev = "Answer" }

\* the scenario of C6 has run: caller 1 sent the switch request, the bus echoed
\* the written frame once and then delivered the matching LongAck
C6_Scenario ==
    /\ calls = << 1, 0 >>
    /\ spc[1] = "done"
    /\ wire = << to_message(M_SwReq) >>
    /\ echoSinceWrite[1]
    /\ rlog = << to_message(M_SwReq), F_LongAck >>
    /\ rpc \in {"test", "select", "parked"}

\* C6: in that scenario send_message returned Ok and the sink holds exactly one
\* Answer, pairing the LongAck with the request, for either ignore mode
C6_EchoAckCorrelation ==
    C6_Scenario =>
        /\ sres[1] = "Ok"
        /\ AnswersIn(sink) # {}
        /\ \A k \in AnswersIn(sink) : sink[k] = EvAnswer(Decoded(F_LongAck), M_SwReq)
        /\ Cardinality(AnswersIn(sink)) = 1

RECURSIVE LastRequest(_)
\* the most recent acknowledgment-expecting message among the Message events
LastRequest(s) ==
    IF s = <<>> THEN Msg("Busy", <<>>)
    ELSE LET e == s[Len(s)]
         IN  IF e.ev = "Message" /\ e.m.tag \in {"LocoAdr", "SwAck", "SwState", "SwReq",
                                                   "WrSlData", "ImmPacket"}
             THEN e.m
             ELSE LastRequest(SubSeq(s, 1, Len(s) - 1))

\* what the claim asks of a received message
AnswerDue(msg) ==
    /\ await_response
    /\ \/ /\ msg.tag = "LongAck"
          /\ msg.f[1] = BitAnd(MessageOpc(last_message), 127)
       \/ /\ msg.tag = "SlRdData"
          /\ last_message.tag \in {"LocoAdr", "RqSlData", "MoveSlots", "LinkSlots",
                                   "UnlinkSlots"}

\* a step of the reader that completes a frame emits Answer(msg, last_message)
\* exactly when an answer is due for the message it forwards
AnswerStep ==
    rlog' # rlog =>
        LET new == SubSeq(sink', Len(sink) + 1, Len(sink'))
            msgs == { k \in DOMAIN new : new[k].ev = "Message" }
        IN  IF msgs = {} THEN AnswersIn(new) = {}
            ELSE \A k \in msgs :
                    /\ AnswersIn(new) = (IF AnswerDue(new[k].m) THEN { 1 } ELSE {})
                    /\ \A a \in AnswersIn(new) : new[a] = EvAnswer(new[k].m, last_message)

\* the request of every Answer is the most recent acknowledgment-expecting message
AnswerRequests ==
    \A k \in AnswersIn(sink) : sink[k].r = LastRequest(SubSeq(sink, 1, k - 1))

C8_StopCompletes ==
    stpc = "join" => (Joined(rpc) \/ ENABLED Reader)

C10_SendReturns ==
    \A i \in Callers :
        /\ spc[i] \in {"done", "panicked"} => sres[i] \in Results
        /\ spc[i] \in {"written", "checked", "waiting"} => ENABLED Sender(i)

(***************************************************************************)
(* C11 .. C14: the calls and the events of the reader                      *)
(***************************************************************************)
\* C11: a send_message call made while no reader is running (stop_reader took
\* the handle, or the reader task has exited) returns IllegalState at once,
\* writes nothing to the transport and leaves the pending-echo slot unchanged
C11_IllegalState ==
    [][\A i \in Callers :
          (calls'[i] # calls[i] /\ (~reading_thread \/ rpc = "exited"))
              => /\ spc'[i] = "done"
                 /\ sres'[i] = "IllegalState"
                 /\ wire' = wire
                 /\ last_send' = last_send]_vars

\* the events a step appends to the sink
NewEvents == SubSeq(sink', Len(sink) + 1, Len(sink'))

\* the frame a step of the reader has completed
NewFrame == rlog'[Len(rlog')]

FrameEvents(s) == { k \in DOMAIN s : s[k].ev \in {"Message", "Error"} }

Suppressed(frame) == ignore_send_messages /\ last_send # <<>> /\ last_send = frame

\* the events of one frame: at most one Message or Error event, exactly one
\* unless the frame is a withheld echo or its decoding ended the reader, and
\* one Answer before the Message of a correlated acknowledgment
FrameStep ==
    rlog' # rlog =>
        LET new == NewEvents
        IN  /\ Cardinality(FrameEvents(new)) <= 1
            /\ Cardinality(AnswersIn(new)) <= 1
            /\ (FrameEvents(new) # {}) <=> (~Suppressed(NewFrame) /\ rpc' # "panicked")
            /\ IF AnswersIn(new) = {} THEN Len(new) <= 1
               ELSE Len(new) = 2 /\ new[1].ev = "Answer" /\ new[2].ev = "Message"

OrderStep ==
    /\ Len(sink') >= Len(sink)
    /\ SubSeq(sink', 1, Len(sink)) = sink
    /\ Len(rlog') >= Len(rlog)
    /\ SubSeq(rlog', 1, Len(rlog)) = rlog
    /\ rlog' # rlog =>
          /\ Len(rlog') = Len(rlog) + 1
          /\ NewFrame \o inbound' = buf \o inbound
          /\ \A k \in FrameEvents(NewEvents) :
                LET p == MessageParse(NewFrame, overflow_checks)
                IN  IF NewEvents[k].ev = "Message"
                    THEN p.t = "Ok" /\ NewEvents[k].m = Msg(p.tag, p.f)
                    ELSE p.t # "Ok"

\* an Answer stands right before the Message of its acknowledgment and after
\* the Message of its request
AnswerPlaced ==
    \A k \in AnswersIn(sink) :
        /\ k < Len(sink)
        /\ sink[k + 1] = EvMessage(sink[k].m)
        /\ \E j \in 1 .. (k - 1) : sink[j] = EvMessage(sink[k].r)

\* C13: sink events are emitted in the order the frames arrived; the Answer
\* of a correlated acknowledgment is emitted before the Message of the same
\* frame and after the Message of the request it answers
C13_Ordering ==
    /\ [][OrderStep]_vars
    /\ []AnswerPlaced

\* request, then Answer and Message of its slot-data reply
C13_Witness ==
    \E k \in AnswersIn(sink) :
        /\ sink[k].m.tag = "SlRdData"
        /\ sink[k - 1] = EvMessage(sink[k].r)
        /\ sink[k + 1] = EvMessage(sink[k].m)

\* C14: a malformed inbound frame does not stop the reader: after every frame
\* it has read the reader goes on with its loop
C14_ReaderSurvives ==
    [][rlog' # rlog => rpc' = "test"]_vars

(***************************************************************************)
(* C15 .. C17: the parser on arbitrary, truncated and corrupted input      *)
(***************************************************************************)
\* C15: Message::parse returns Ok(Message) or Err(MessageParseError) for every
\* input byte sequence and never aborts
C15_ParseReturns ==
    cpc = "rawparsed" => cres.t \in {"Ok", "Err"}

\* the frame length the first bytes declare: fixed by the opcode class, or the
\* second byte for the variable class (not yet known if only one byte is there)
DeclaredLen(frame) ==
    LET class == frame[1] \div 32
    IN  CASE class = 4 -> 2
          [] class = 5 -> 4
          [] class = 6 -> 6
          [] class = 7 -> IF Len(frame) >= 2 THEN frame[2] ELSE 2
          [] OTHER -> 0

\* C16: length-dispatch law: for each of the four opcode classes Message::parse
\* given fewer bytes than the declared frame length returns UnexpectedEnd
C16_LengthDispatch ==
    (cpc = "rawparsed" /\ cframe # <<>> /\ Len(cframe) < DeclaredLen(cframe))
        => cres = ParseErr("UnexpectedEnd", <<>>)

\* opcode 0xE7 with declared length 14 and only 10 bytes available
C16_Witness ==
    /\ cpc = "rawparsed"
    /\ cframe = << 231, 14, 3, 51, 5, 0, 0, 7, 0, 0 >>
    /\ cres = ParseErr("UnexpectedEnd", <<>>)

\* C17: replacing any single byte of a frame produced by to_message by a
\* different value makes Message::parse return InvalidChecksum
C17_SingleByteCorruption ==
    cpc = "reparsed" => cres = ParseErr("InvalidChecksum", <<>>)

(***************************************************************************)
(* C18 .. C20: transport failures and the ignore mode                      *)
(***************************************************************************)
PortErrors == { k \in DOMAIN sink : sink[k] = EvSerialPortError }

\* C18: a SerialPortError event is emitted at most once, and after it the
\* reader has exited for good: no further event is ever emitted to the sink
C18_PortErrorTerminal ==
    /\ [](Cardinality(PortErrors) <= 1)
    /\ [](PortErrors # {} => rpc = "exited")
    /\ [][PortErrors # {} => sink' = sink]_vars

\* the port could not be opened, and bytes arrive at the transport afterwards
C18_Witness ==
    sink = << EvSerialPortError >> /\ injected = MaxInject /\ inbound # <<>>

\* C19: a failure of the transport read ends the reader loop: after the step
\* that reports it the reader has exited
C19_ReadFailureTerminal ==
    [][(injected' # injected /\ inbound' = inbound) => rpc' = "exited"]_vars

\* C20: in ignore mode a frame the reader reads yields no event if and only if
\* it is byte-equal to the non-empty pending-echo slot at that moment; with the
\* mode disabled every frame, the echo included, yields an event
C20_IgnoreMode ==
    [][rlog' # rlog =>
          IF ignore_send_messages
          THEN (NewEvents = <<>>) <=> (last_send # <<>> /\ last_send = NewFrame)
          ELSE NewEvents # <<>>]_vars

(***************************************************************************)
(* C21, C25 .. C28: correlation, bookkeeping, framing, the slot, stop      *)
(***************************************************************************)
\* C21: when the frame received last is a message that expects slot data and
\* the next frame is a SlRdData, the sink receives an Answer pairing the
\* SlRdData with that request
C21_SlotDataCorrelation ==
    [][(/\ rlog' # rlog
        /\ rlog # <<>>
        /\ sink # <<>>
        /\ LET req == MessageParse(rlog[Len(rlog)], overflow_checks)
               rsp == MessageParse(NewFrame, overflow_checks)
           IN  /\ req.t = "Ok"
               /\ req.tag \in {"LocoAdr", "RqSlData", "MoveSlots", "LinkSlots", "UnlinkSlots"}
               /\ sink[Len(sink)] = EvMessage(Msg(req.tag, req.f))
               /\ rsp.t = "Ok"
               /\ rsp.tag = "SlRdData")
          => /\ NewEvents # <<>>
             /\ NewEvents[1] = EvAnswer(Decoded(NewFrame), Decoded(rlog[Len(rlog)]))]_vars

BookUnchanged == await_response' = await_response /\ last_message' = last_message

\* the bookkeeping a step performs, read off the events it emits
BookStep ==
    LET new == NewEvents
        e == new[Len(new)]
    IN  IF new = <<>> \/ e.ev = "SerialPortError" THEN BookUnchanged
        ELSE IF e.ev = "Error" THEN ~await_response' /\ last_message' = last_message
        ELSE IF e.m.tag \in {"LocoAdr", "SwAck", "SwState", "SwReq", "WrSlData", "ImmPacket"}
        THEN await_response' /\ last_message' = e.m
        ELSE IF e.m.tag # "Busy" THEN ~await_response' /\ last_message' = last_message
        ELSE BookUnchanged

\* C25: a message that expects an acknowledgment becomes last_message and the
\* reader is awaiting; any other message but Busy clears awaiting; Busy and an
\* internal Update leave both unchanged; a decode error clears awaiting
C25_Bookkeeping ==
    [][BookStep]_vars

\* a Busy message arrived after a request and the reader is still awaiting
C25_Witness ==
    /\ sink # <<>>
    /\ sink[Len(sink)] = EvMessage(Msg("Busy", <<>>))
    /\ await_response

\* C26: the reader consumes exactly the bytes the opcode class (or the length
\* byte) declares, for every length byte and without abort; a byte of no
\* class is consumed alone
C26_ReaderFraming ==
    [][/\ ~(rpc = "len" /\ rpc' = "panicked")
       /\ rlog' # rlog =>
            \/ Len(NewFrame) = DeclaredLen(NewFrame)
            \/ NewFrame[1] \div 32 < 4 /\ Len(NewFrame) = 1]_vars

\* what a step does to the pending-echo slot
SlotStep ==
    /\ \A i \in Callers :
          (sres'[i] # sres[i] /\ sres'[i] \in {"Timeout", "NotWritable"})
              => last_send' = last_send
    /\ last_send' # last_send =>
          \/ last_send' = <<>> /\ rlog' # rlog /\ NewFrame = last_send
          \/ \E i \in Callers : /\ spc[i] = "locked"
                                /\ spc'[i] = "published"
                                /\ last_send' = to_message(smsg[i])
    /\ (rlog' # rlog /\ last_send # <<>> /\ NewFrame = last_send) =>
          /\ last_send' = <<>>
          /\ ignore_send_messages => NewEvents = <<>>

\* C27: Timeout and NotWritable leave the pending-echo slot as it is; the slot
\* changes only when a byte-equal frame is read (cleared, the frame withheld in
\* ignore mode) or the next send_message publishes; a call returns Ok only
\* after an echo of its own bytes
C27_SlotKeptOnFailure ==
    /\ [][SlotStep]_vars
    /\ [](\A i \in Callers : sres[i] = "Ok" => echoSincePublish[i])

\* the call timed out without an echo; its frame arrived later, cleared the
\* slot and was withheld
C27_Witness ==
    /\ spc[1] = "done"
    /\ sres[1] = "Timeout"
    /\ ~echoSincePublish[1]
    /\ calls[2] = 0
    /\ ignore_send_messages
    /\ last_send = <<>>
    /\ rlog = << to_message(M_SwReq) >>
    /\ sink = <<>>

\* C28: a further stop after a completed stop returns at once and changes
\* nothing; after the first stop the stop flag is false, no handle is left and
\* every later send_message returns IllegalState
C28_StopIdempotent ==
    /\ [](stpc \in {"returned", "again"} => (~stop /\ ~reading_thread))
    /\ [][(stpc = "returned" /\ stpc' = "again")
             => UNCHANGED << stop, reading_thread, readerVars, last_send, inbound >>]_vars
    /\ [][\A i \in Callers :
             (calls'[i] # calls[i] /\ stpc \in {"returned", "again"})
                 => (spc'[i] = "done" /\ sres'[i] = "IllegalState")]_vars

\* a second stop has returned and a later call got IllegalState
C28_Witness ==
    stpc = "again" /\ sres[1] = "IllegalState"

(***************************************************************************)
(* C22 .. C24, C29, C30: the field codecs                                  *)
(***************************************************************************)
\* C22: a SpeedArg is written as 0 (Stop), 1 (EmergencyStop) or n + 1
\* (Drive(n)), the byte is at most 127, parsing the byte returns the same
\* SpeedArg, and LocoSpd(slot 10, Drive(122)) is written as 0xA0, 0x0A, 0x7B
C22_SpeedEncoding ==
    (cpc = "read" /\ cmsg.tag = "SpeedArg") =>
        /\ cframe = << IF cmsg.f[1] = 2 THEN cmsg.f[2] + 1 ELSE cmsg.f[1] >>
        /\ cframe[1] <= 127
        /\ cres.f = cmsg.f
        /\ cmsg.f = << 2, 122 >> =>
              SubSeq(to_message(Msg("LocoSpd", << 10, 2, 122 >>)), 1, 3) = << 160, 10, 123 >>

\* the mask of the wire width of a field
WidthMask(tag) == IF tag = "SlotArg" THEN 127 ELSE IF tag = "AddressArg" THEN 16383 ELSE 2047

\* C23: a field constructed from an out-of-range input reads back as the
\* input masked to the wire width of the field (7, 14, 11, 11 bits)
C23_FieldMasking ==
    (cpc = "read" /\ cmsg \in NewInputs) =>
        cres.f = << BitAnd(cmsg.f[1], WidthMask(cmsg.tag)) >>

\* C24: in a frame written by to_message only the opcode byte has its most
\* significant bit set
C24_SevenBitBytes ==
    cpc \in {"encoded", "parsed"} =>
        /\ cframe[1] >= 128
        /\ \A k \in 2 .. Len(cframe) : cframe[k] <= 127

\* the function numbers of a group
GroupRange(group) ==
    IF group = 7 THEN 9 .. 11
    ELSE IF group = 5 THEN {12, 20, 28}
    ELSE IF group = 8 THEN 13 .. 19
    ELSE 21 .. 27

\* the bit positions in which two bytes differ
DiffBits(a, b) == { k \in 0 .. 7 : BitAnd(Shr(a, k), 1) # BitAnd(Shr(b, k), 1) }

\* C29: for f in the range of the active group, f(f) after set_f(f, v) is v
\* and at most the bit of f changed; for any other f, set_f changes nothing
\* and f(f) is false
C29_FunctionGroups ==
    (cpc = "read" /\ cmsg.tag = "FunctionArg") =>
        IF cmsg.f[3] \in GroupRange(cmsg.f[1])
        THEN /\ cres.f = << cmsg.f[4] >>
             /\ Cardinality(DiffBits(cmsg.f[2], cframe[2])) <= 1
             /\ cframe[1] = cmsg.f[1]
        ELSE cframe = SubSeq(cmsg.f, 1, 2) /\ cres.f = << 0 >>

\* C30: to_message writes 0x7C, 0x7B or the slot number as first argument
\* byte, parse selects the variant by that byte alone, and every variant,
\* the general one for each slot 0..127 included, parses back to itself
C30_WrSlDataVariant ==
    (cpc = "read" /\ cmsg.tag = "WrSlData") =>
        /\ cframe = << IF cmsg.f[1] = DataPt THEN 124
                       ELSE IF cmsg.f[1] = DataTime THEN 123 ELSE cmsg.f[2] >>
        /\ cres.f = cmsg.f

====
